---- MODULE Spec2Model ----
(***************************************************************************)
(* Model of core/dbt/parser/results.py: the ParseResult registry of a      *)
(* parse pass (nodes, sources, docs, macros, patches, disabled, files)     *)
(* and sanitized_update, which copies the artifacts of an unchanged file   *)
(* from the previous pass's ParseResult into the current one.              *)
(*                                                                         *)
(* Two passes are modelled.  In pass 1 the parser fills old_result; in     *)
(* pass 2 it fills new_result, either by parsing (the add calls) or by reusing *)
(* the cached file (sanitized_update against old_result).                  *)
(*                                                                         *)
(* Python objects are modelled by value.  Every call receives a freshly    *)
(* loaded SourceFile (empty id lists), so the only record a registry can   *)
(* reach through a reference is the one stored in its own files mapping.   *)
(***************************************************************************)
EXTENDS Naturals, Sequences, FiniteSets, TLC

\* Longest id list a parser call may extend, and longest disabled list
\* add_disabled may extend (sanitized_update may go past both).
MaxSeqLen == 2
MaxDisabled == 2
\* Most artifacts the parser of the one-pass specification stores.
MaxStored == 2

\* Python's None (SourceFile.search_key of an uncached file).
None == "None"

\* Unique ids / patch names handed out by the parsers.
NodeIds == {"n1", "n2"}
SourceIds == {"s1"}
DocIds == {"d1", "d2"}
MacroIds == {"m1"}
PatchNames == {"t1"}

\* The five id lists of a SourceFile.
Kinds == {"docs", "macros", "sources", "nodes", "patches"}

\* A freshly loaded SourceFile: path (original_file_path, RemoteFile or not),
\* checksum, search_key and empty id lists.
SourceFile(key, checksum, ofp, remote) ==
    [search_key |-> key, checksum |-> checksum,
     original_file_path |-> ofp, is_remote |-> remote,
     docs |-> <<>>, macros |-> <<>>, sources |-> <<>>,
     nodes |-> <<>>, patches |-> <<>>]

\* The files a pass meets: file 1 as cached (F1) and edited (F1x), file 2,
\* a local file whose search_key is None, and a RemoteFile.
F1 == SourceFile("k1", "h1", "p1", FALSE)
F1x == SourceFile("k1", "h2", "p1", FALSE)
F2 == SourceFile("k2", "h1", "p2", FALSE)
NoKey == SourceFile(None, "none", "p0", FALSE)
Remote == SourceFile(None, "none", "from remote system", TRUE)

SourceFiles == {F1, F1x, F2, NoKey, Remote}

\* The files the parsers register artifacts for, and the cacheable ones.
ParsedFiles == {F1, F2, Remote}
CachedFiles == {F1, F2}

\* The artifact a parser produces for id `id` out of file `source_file`:
\* its content (raw) follows the file's contents.
Parsed(id, source_file) ==
    [unique_id |-> id, original_file_path |-> source_file.original_file_path,
     raw |-> source_file.checksum]

\* A patch is keyed by name.
ParsedPatch(name, source_file) ==
    [name |-> name, original_file_path |-> source_file.original_file_path,
     raw |-> source_file.checksum]

\* dict_field(): an empty dict.
dict_field == [k \in {} |-> None]

\* d[k] = v on a dict.
SetItem(d, k, v) == [x \in (DOMAIN d) \cup {k} |-> IF x = k THEN v ELSE d[x]]

\* ParseResult(...) as constructed: every mapping empty.
ParseResult ==
    [nodes |-> dict_field, sources |-> dict_field, docs |-> dict_field,
     macros |-> dict_field, patches |-> dict_field, files |-> dict_field,
     disabled |-> dict_field]

\* Faulty variant: the given record replaces the one stored under its key.
get_file_replaces(self, source_file) ==
    LET key == source_file.search_key IN
    IF key = None
    THEN [self |-> self, file |-> source_file]
    ELSE [self |-> [self EXCEPT !.files = SetItem(@, key, source_file)],
          file |-> source_file]

\* get_file: the registry after the call and the record it returns.
get_file(self, source_file) ==
    LET key == source_file.search_key IN
    IF key = None
    THEN [self |-> self, file |-> source_file]
    ELSE IF key \notin DOMAIN self.files
    THEN [self |-> [self EXCEPT !.files = SetItem(@, key, source_file)],
          file |-> source_file]
    ELSE [self |-> self, file |-> self.files[key]]

\* Faulty variant: the id is put in front of the list instead of at its end.
append_id_prepends(self, source_file, kind, id) ==
    LET got == get_file(self, source_file)
        key == source_file.search_key IN
    IF key = None
    THEN got.self
    ELSE [got.self EXCEPT !.files[key][kind] = <<id>> \o @]

\* self.get_file(source_file).<kind>.append(id): the append lands in the
\* stored record, or in the caller's own object when the file has no key.
append_id(self, source_file, kind, id) ==
    LET got == get_file(self, source_file)
        key == source_file.search_key IN
    IF key = None
    THEN got.self
    ELSE [got.self EXCEPT !.files[key][kind] = Append(@, id)]

\* _check_duplicates: TRUE when it raises.
check_duplicates(value, src) == value.unique_id \in DOMAIN src

add_source(self, source_file, node) ==
    IF check_duplicates(node, self.sources)
    THEN [self |-> self, err |-> "DuplicateResourceName"]
    ELSE [self |-> append_id([self EXCEPT !.sources = SetItem(@, node.unique_id, node)],
                             source_file, "sources", node.unique_id),
          err |-> "ok"]

\* Faulty variant: a node is overwritten like a macro, without the duplicate check.
add_node_overwrites(self, source_file, node) ==
    [self |-> append_id([self EXCEPT !.nodes = SetItem(@, node.unique_id, node)],
                        source_file, "nodes", node.unique_id),
     err |-> "ok"]

\* Faulty variant: the file is registered before the duplicate check.
add_node_registers_first(self, source_file, node) ==
    LET got == get_file(self, source_file) IN
    IF check_duplicates(node, self.nodes)
    THEN [self |-> got.self, err |-> "DuplicateResourceName"]
    ELSE [self |-> append_id([self EXCEPT !.nodes = SetItem(@, node.unique_id, node)],
                             source_file, "nodes", node.unique_id),
          err |-> "ok"]

add_node(self, source_file, node) ==
    IF check_duplicates(node, self.nodes)
    THEN [self |-> self, err |-> "DuplicateResourceName"]
    ELSE [self |-> append_id([self EXCEPT !.nodes = SetItem(@, node.unique_id, node)],
                             source_file, "nodes", node.unique_id),
          err |-> "ok"]

\* Faulty variant: the first variant of an id is listed in the file but not stored.
add_disabled_unregistered(self, source_file, node) ==
    LET d == IF node.unique_id \in DOMAIN self.disabled
             THEN [self.disabled EXCEPT ![node.unique_id] = Append(@, node)]
             ELSE self.disabled IN
    [self |-> append_id([self EXCEPT !.disabled = d],
                        source_file, "nodes", node.unique_id),
     err |-> "ok"]

\* Faulty variant: the new variant replaces the list stored under its id.
add_disabled_replaces(self, source_file, node) ==
    [self |-> append_id([self EXCEPT !.disabled = SetItem(@, node.unique_id, <<node>>)],
                        source_file, "nodes", node.unique_id),
     err |-> "ok"]

add_disabled(self, source_file, node) ==
    LET d == IF node.unique_id \in DOMAIN self.disabled
             THEN [self.disabled EXCEPT ![node.unique_id] = Append(@, node)]
             ELSE SetItem(self.disabled, node.unique_id, <<node>>) IN
    [self |-> append_id([self EXCEPT !.disabled = d],
                        source_file, "nodes", node.unique_id),
     err |-> "ok"]

add_macro(self, source_file, macro) ==
    [self |-> append_id([self EXCEPT !.macros = SetItem(@, macro.unique_id, macro)],
                        source_file, "macros", macro.unique_id),
     err |-> "ok"]

\* Faulty variant: the doc first stored under an id is kept (first writer wins).
add_doc_keeps_first(self, source_file, doc) ==
    [self |-> append_id(IF doc.unique_id \in DOMAIN self.docs THEN self
                        ELSE [self EXCEPT !.docs = SetItem(@, doc.unique_id, doc)],
                        source_file, "docs", doc.unique_id),
     err |-> "ok"]

add_doc(self, source_file, doc) ==
    [self |-> append_id([self EXCEPT !.docs = SetItem(@, doc.unique_id, doc)],
                        source_file, "docs", doc.unique_id),
     err |-> "ok"]

\* Faulty variant: a patch is overwritten like a macro, without the name check.
add_patch_overwrites(self, source_file, patch) ==
    [self |-> append_id([self EXCEPT !.patches = SetItem(@, patch.name, patch)],
                        source_file, "patches", patch.name),
     err |-> "ok"]

add_patch(self, source_file, patch) ==
    IF patch.name \in DOMAIN self.patches
    THEN [self |-> self, err |-> "DuplicatePatchName"]
    ELSE [self |-> append_id([self EXCEPT !.patches = SetItem(@, patch.name, patch)],
                             source_file, "patches", patch.name),
          err |-> "ok"]

\* Faulty variant: every variant under the id is returned, whatever its file.
get_disabled_unfiltered(self, unique_id, match_file) ==
    IF unique_id \notin DOMAIN self.disabled
    THEN [ret |-> <<>>, err |-> "InternalException"]
    ELSE [ret |-> self.disabled[unique_id], err |-> "ok"]

\* _get_disabled: the variants of unique_id whose original_file_path is
\* match_file's, or the InternalException.
get_disabled(self, unique_id, match_file) ==
    IF unique_id \notin DOMAIN self.disabled
    THEN [ret |-> <<>>, err |-> "InternalException"]
    ELSE [ret |-> SelectSeq(self.disabled[unique_id],
                     LAMBDA n : n.original_file_path = match_file.original_file_path),
          err |-> "ok"]

\* Faulty variant: a tracked key counts as cached whatever its checksum.
has_file_ignores_checksum(self, source_file) ==
    LET key == source_file.search_key IN
    key # None /\ key \in DOMAIN self.files

\* has_file
has_file(self, source_file) ==
    LET key == source_file.search_key IN
    IF key = None THEN FALSE
    ELSE IF key \notin DOMAIN self.files THEN FALSE
    ELSE self.files[key].checksum = source_file.checksum

\* _expect_value: TRUE when it raises the CompilationException.
expect_value_raises(key, src) == key \notin DOMAIN src

\* The outcome r of an add call for id: the exception, if any, names the id.
At(r, id) ==
    [self |-> r.self, err |-> r.err, at |-> IF r.err = "ok" THEN None ELSE id]

\* Lines 130-132: copy the docs of old_file, in order, until one step raises.
RECURSIVE update_docs(_, _, _, _)
\* The loop over the docs goes on with ids on what r left, unless r raised.
then_update_docs(r, source_file, old_result, ids) ==
    IF r.err # "ok" THEN r ELSE update_docs(r.self, source_file, old_result, ids)

update_docs(self, source_file, old_result, ids) ==
    IF ids = <<>> THEN [self |-> self, err |-> "ok", at |-> None]
    ELSE IF expect_value_raises(Head(ids), old_result.docs)
    THEN [self |-> self, err |-> "CompilationException", at |-> Head(ids)]
    ELSE then_update_docs(At(add_doc(self, source_file, old_result.docs[Head(ids)]), Head(ids)),
                          source_file, old_result, Tail(ids))

\* Lines 134-138: the macros.
RECURSIVE update_macros(_, _, _, _)
\* The loop over the macros goes on with ids on what r left, unless r raised.
then_update_macros(r, source_file, old_result, ids) ==
    IF r.err # "ok" THEN r ELSE update_macros(r.self, source_file, old_result, ids)

update_macros(self, source_file, old_result, ids) ==
    IF ids = <<>> THEN [self |-> self, err |-> "ok", at |-> None]
    ELSE IF expect_value_raises(Head(ids), old_result.macros)
    THEN [self |-> self, err |-> "CompilationException", at |-> Head(ids)]
    ELSE then_update_macros(At(add_macro(self, source_file, old_result.macros[Head(ids)]), Head(ids)),
                            source_file, old_result, Tail(ids))

\* Faulty variant: the sources of the file are not carried over.
update_sources_skips(self, source_file, old_result, ids) ==
    [self |-> self, err |-> "ok", at |-> None]

\* Lines 140-144: the sources.
RECURSIVE update_sources(_, _, _, _)
\* The loop over the sources goes on with ids on what r left, unless r raised.
then_update_sources(r, source_file, old_result, ids) ==
    IF r.err # "ok" THEN r ELSE update_sources(r.self, source_file, old_result, ids)

update_sources(self, source_file, old_result, ids) ==
    IF ids = <<>> THEN [self |-> self, err |-> "ok", at |-> None]
    ELSE IF expect_value_raises(Head(ids), old_result.sources)
    THEN [self |-> self, err |-> "CompilationException", at |-> Head(ids)]
    ELSE then_update_sources(At(add_source(self, source_file, old_result.sources[Head(ids)]), Head(ids)),
                             source_file, old_result, Tail(ids))

\* Lines 155-156: add_disabled for each match, in order.
RECURSIVE update_matches(_, _, _)
\* The loop over the matches goes on on what r left, unless r raised.
then_update_matches(r, source_file, matches) ==
    IF r.err # "ok" THEN r ELSE update_matches(r.self, source_file, matches)

update_matches(self, source_file, matches) ==
    IF matches = <<>> THEN [self |-> self, err |-> "ok"]
    ELSE then_update_matches(add_disabled(self, source_file, Head(matches)),
                             source_file, Tail(matches))

\* Faulty variant: an id that is in neither nodes nor disabled is passed over.
update_node_skips_missing(self, source_file, old_result, node_id) ==
    IF node_id \in DOMAIN old_result.nodes
    THEN add_node(self, source_file, old_result.nodes[node_id])
    ELSE IF node_id \in DOMAIN old_result.disabled
    THEN update_matches(self, source_file,
                        get_disabled(old_result, node_id, source_file).ret)
    ELSE [self |-> self, err |-> "ok"]

\* Lines 150-162: one id of old_file.nodes.
update_node(self, source_file, old_result, node_id) ==
    IF node_id \in DOMAIN old_result.nodes
    THEN add_node(self, source_file, old_result.nodes[node_id])
    ELSE IF node_id \in DOMAIN old_result.disabled
    THEN LET matches == get_disabled(old_result, node_id, source_file) IN
         IF matches.err # "ok" THEN [self |-> self, err |-> matches.err]
         ELSE update_matches(self, source_file, matches.ret)
    ELSE [self |-> self, err |-> "CompilationException"]

\* Faulty variant: when a node fails, the nodes copied before it are taken back.
RECURSIVE update_nodes_rolls_back(_, _, _, _)
update_nodes_rolls_back(self, source_file, old_result, ids) ==
    IF ids = <<>> THEN [self |-> self, err |-> "ok", at |-> None]
    ELSE LET r == update_node(self, source_file, old_result, Head(ids)) IN
         IF r.err # "ok" THEN [self |-> self, err |-> r.err, at |-> Head(ids)]
         ELSE LET rest == update_nodes_rolls_back(r.self, source_file,
                                                  old_result, Tail(ids)) IN
              IF rest.err # "ok" THEN [rest EXCEPT !.self = self] ELSE rest

\* Lines 149-162: the nodes, active or disabled.
RECURSIVE update_nodes(_, _, _, _)
\* The loop over the nodes goes on with ids on what r left, unless r raised.
then_update_nodes(r, source_file, old_result, ids) ==
    IF r.err # "ok" THEN r ELSE update_nodes(r.self, source_file, old_result, ids)

update_nodes(self, source_file, old_result, ids) ==
    IF ids = <<>> THEN [self |-> self, err |-> "ok", at |-> None]
    ELSE then_update_nodes(At(update_node(self, source_file, old_result, Head(ids)), Head(ids)),
                           source_file, old_result, Tail(ids))

\* Lines 164-168: the patches.
RECURSIVE update_patches(_, _, _, _)
\* The loop over the patches goes on with ids on what r left, unless r raised.
then_update_patches(r, source_file, old_result, ids) ==
    IF r.err # "ok" THEN r ELSE update_patches(r.self, source_file, old_result, ids)

update_patches(self, source_file, old_result, ids) ==
    IF ids = <<>> THEN [self |-> self, err |-> "ok", at |-> None]
    ELSE IF expect_value_raises(Head(ids), old_result.patches)
    THEN [self |-> self, err |-> "CompilationException", at |-> Head(ids)]
    ELSE then_update_patches(At(add_patch(self, source_file, old_result.patches[Head(ids)]), Head(ids)),
                             source_file, old_result, Tail(ids))

\* What sanitized_update hands back once the loops ended with r: True, or
\* the exception of r and the id it names.
Returned(r, old) ==
    [self |-> r.self, old_result |-> old,
     ret |-> IF r.err = "ok" THEN "True" ELSE r.err, at |-> r.at]

\* Faulty variant: a RemoteFile is not turned away.
sanitized_update_takes_remote(self, source_file, old_result) ==
    LET got == get_file(old_result, source_file)
        old == got.self
        old_file == got.file
        r1 == update_docs(self, source_file, old, old_file.docs)
        r2 == then_update_macros(r1, source_file, old, old_file.macros)
        r3 == then_update_sources(r2, source_file, old, old_file.sources)
        r4 == then_update_nodes(r3, source_file, old, old_file.nodes)
        r5 == then_update_patches(r4, source_file, old, old_file.patches)
    IN Returned(r5, old)

\* Faulty variant: the patches are copied before the nodes.
sanitized_update_patches_first(self, source_file, old_result) ==
    IF source_file.is_remote
    THEN [self |-> self, old_result |-> old_result, ret |-> "False", at |-> None]
    ELSE LET got == get_file(old_result, source_file)
             old == got.self
             old_file == got.file
             r1 == update_docs(self, source_file, old, old_file.docs)
             r2 == then_update_macros(r1, source_file, old, old_file.macros)
             r3 == then_update_sources(r2, source_file, old, old_file.sources)
             r4 == then_update_patches(r3, source_file, old, old_file.patches)
             r5 == then_update_nodes(r4, source_file, old, old_file.nodes)
         IN Returned(r5, old)

\* sanitized_update: both registries after the call, what it returns
\* ("True", "False") or raises, and the id the exception names.  What was
\* inserted before a raise stays.
sanitized_update(self, source_file, old_result) ==
    IF source_file.is_remote
    THEN [self |-> self, old_result |-> old_result, ret |-> "False", at |-> None]
    ELSE LET got == get_file(old_result, source_file)
             old == got.self
             old_file == got.file
             r1 == update_docs(self, source_file, old, old_file.docs)
             r2 == then_update_macros(r1, source_file, old, old_file.macros)
             r3 == then_update_sources(r2, source_file, old, old_file.sources)
             r4 == then_update_nodes(r3, source_file, old, old_file.nodes)
             r5 == then_update_patches(r4, source_file, old, old_file.patches)
         IN Returned(r5, old)

----------------------------------------------------------------------------
\* The state: the previous pass's registry, the registry under construction,
\* the pass being run, and the last call with what it returned or raised.
VARIABLES old_result, new_result, pass, last

vars == <<old_result, new_result, pass, last>>

\* The registry the parser of the running pass writes to.
Cur == IF pass = 1 THEN old_result ELSE new_result

Store(r) ==
    IF pass = 1
    THEN old_result' = r /\ UNCHANGED new_result
    ELSE new_result' = r /\ UNCHANGED old_result

\* A call: the method, its file and id argument (for sanitized_update the
\* id its exception names), "ok" / "True" / "False" or the exception raised,
\* and the records returned (as a list).
Call(op, source_file, arg, ret, value) ==
    [op |-> op, source_file |-> source_file, arg |-> arg, ret |-> ret,
     value |-> value]

\* Stands for the file argument of a step that has none.
NoFile == SourceFile(None, None, None, FALSE)

\* The id list `kind` of the record stored for source_file (empty if none).
Ids(self, source_file, kind) ==
    IF source_file.search_key \in DOMAIN self.files
    THEN self.files[source_file.search_key][kind]
    ELSE <<>>

\* State-space bound: the id list a call extends is shorter than MaxSeqLen.
Room(self, source_file, kind) == Len(Ids(self, source_file, kind)) < MaxSeqLen

RECURSIVE SumLen(_, _)
SumLen(d, keys) ==
    IF keys = {} THEN 0
    ELSE LET k == CHOOSE x \in keys : TRUE IN Len(d[k]) + SumLen(d, keys \ {k})

\* The number of artifacts a registry stores.
Stored(self) ==
    Cardinality(DOMAIN self.nodes) + Cardinality(DOMAIN self.sources)
    + Cardinality(DOMAIN self.docs) + Cardinality(DOMAIN self.macros)
    + Cardinality(DOMAIN self.patches)
    + SumLen(self.disabled, DOMAIN self.disabled)

\* State-space bound of the one-pass specification: once MaxStored
\* artifacts are stored, only calls that raise are made.
Budget == Stored(Cur) < MaxStored

Init ==
    /\ old_result = ParseResult
    /\ new_result = ParseResult
    /\ pass = 1
    /\ last = Call("init", NoFile, None, "ok", <<>>)

GetFile(source_file) ==
    /\ LET r == get_file(Cur, source_file) IN
         /\ Store(r.self)
         /\ last' = Call("get_file", source_file, None, "ok", <<r.file>>)
    /\ UNCHANGED pass

AddNode(source_file, id) ==
    /\ Room(Cur, source_file, "nodes")
    /\ LET r == add_node(Cur, source_file, Parsed(id, source_file)) IN
         /\ Store(r.self)
         /\ last' = Call("add_node", source_file, id, r.err, <<>>)
    /\ UNCHANGED pass

AddDisabled(source_file, id) ==
    /\ Room(Cur, source_file, "nodes")
    /\ id \in DOMAIN Cur.disabled => Len(Cur.disabled[id]) < MaxDisabled
    /\ LET r == add_disabled(Cur, source_file, Parsed(id, source_file)) IN
         /\ Store(r.self)
         /\ last' = Call("add_disabled", source_file, id, r.err, <<>>)
    /\ UNCHANGED pass

AddSource(source_file, id) ==
    /\ Room(Cur, source_file, "sources")
    /\ LET r == add_source(Cur, source_file, Parsed(id, source_file)) IN
         /\ Store(r.self)
         /\ last' = Call("add_source", source_file, id, r.err, <<>>)
    /\ UNCHANGED pass

AddDoc(source_file, id) ==
    /\ Room(Cur, source_file, "docs")
    /\ LET r == add_doc(Cur, source_file, Parsed(id, source_file)) IN
         /\ Store(r.self)
         /\ last' = Call("add_doc", source_file, id, r.err, <<>>)
    /\ UNCHANGED pass

AddMacro(source_file, id) ==
    /\ Room(Cur, source_file, "macros")
    /\ LET r == add_macro(Cur, source_file, Parsed(id, source_file)) IN
         /\ Store(r.self)
         /\ last' = Call("add_macro", source_file, id, r.err, <<>>)
    /\ UNCHANGED pass

AddPatch(source_file, name) ==
    /\ Room(Cur, source_file, "patches")
    /\ LET r == add_patch(Cur, source_file, ParsedPatch(name, source_file)) IN
         /\ Store(r.self)
         /\ last' = Call("add_patch", source_file, name, r.err, <<>>)
    /\ UNCHANGED pass

HasFile(source_file) ==
    /\ last' = Call("has_file", source_file, None,
                    IF has_file(Cur, source_file) THEN "True" ELSE "False", <<>>)
    /\ UNCHANGED <<old_result, new_result, pass>>

GetDisabled(id, match_file) ==
    /\ LET r == get_disabled(Cur, id, match_file) IN
         last' = Call("_get_disabled", match_file, id, r.err, r.ret)
    /\ UNCHANGED <<old_result, new_result, pass>>

\* The previous pass is over; the next one starts with an empty registry.
NewPass ==
    /\ pass = 1
    /\ pass' = 2
    /\ last' = Call("new_pass", NoFile, None, "ok", <<>>)
    /\ UNCHANGED <<old_result, new_result>>

\* State-space bound on repeated reuse of one file.
ReuseRoom(self, source_file) ==
    /\ \A kind \in Kinds : Len(Ids(self, source_file, kind)) <= MaxSeqLen
    /\ \A id \in DOMAIN self.disabled : Len(self.disabled[id]) <= MaxDisabled

SanitizedUpdate(source_file) ==
    /\ pass = 2
    /\ ReuseRoom(new_result, source_file)
    /\ \E r \in {sanitized_update(new_result, source_file, old_result)} :
         /\ new_result' = r.self
         /\ old_result' = r.old_result
         /\ last' = Call("sanitized_update", source_file, r.at, r.ret, <<>>)
    /\ UNCHANGED pass

\* One pass: the parsers fill a registry and query it.  The RemoteFile
\* yields active nodes only.
Next ==
    \/ \E source_file \in SourceFiles \ {Remote} : GetFile(source_file)
    \/ \E source_file \in ParsedFiles, id \in NodeIds :
          (Budget \/ id \in DOMAIN Cur.nodes) /\ AddNode(source_file, id)
    \/ \E source_file \in CachedFiles \cup {F1x} :
          Budget /\ AddDisabled(source_file, "n1")
    \/ \E source_file \in CachedFiles, id \in SourceIds :
          (Budget \/ id \in DOMAIN Cur.sources) /\ AddSource(source_file, id)
    \/ \E source_file \in CachedFiles :
          Budget /\ AddDoc(source_file, "d1")
    \/ \E source_file \in CachedFiles, id \in MacroIds :
          Budget /\ AddMacro(source_file, id)
    \/ \E source_file \in CachedFiles, name \in PatchNames :
          (Budget \/ name \in DOMAIN Cur.patches) /\ AddPatch(source_file, name)
    \/ \E source_file \in {F1, F1x, NoKey} : HasFile(source_file)
    \/ \E source_file \in CachedFiles, id \in NodeIds : GetDisabled(id, source_file)

Spec == Init /\ [][Next]_vars

\* Two passes.  In the first, file 1 yields every kind of artifact and
\* file 2 nodes; the second parses file 2 afresh and reuses files whose
\* checksum did not change (the edited F1x is never offered for reuse).
NextReuse ==
    \/ \E source_file \in CachedFiles : pass = 1 /\ GetFile(source_file)
    \/ \E source_file \in CachedFiles :
          (pass = 1 \/ source_file = F2) /\ AddNode(source_file, "n1")
    \/ \E source_file \in CachedFiles : pass = 1 /\ AddDisabled(source_file, "n1")
    \/ \E id \in SourceIds : pass = 1 /\ AddSource(F1, id)
    \/ \E id \in DocIds : pass = 1 /\ AddDoc(F1, id)
    \/ \E id \in MacroIds : pass = 1 /\ AddMacro(F1, id)
    \/ \E name \in PatchNames : pass = 1 /\ AddPatch(F1, name)
    \/ NewPass
    \/ \E source_file \in SourceFiles \ {F1x} : SanitizedUpdate(source_file)

SpecReuse == Init /\ [][NextReuse]_vars

\* The previous pass's registry is read back from a cache that lost the
\* entry `id` of one mapping (the file records still list the id).
LoadDiverged(kind, id) ==
    /\ pass = 1
    /\ id \in DOMAIN old_result[kind]
    /\ old_result' = [old_result EXCEPT
                        ![kind] = [k \in (DOMAIN @) \ {id} |-> @[k]]]
    /\ pass' = 2
    /\ last' = Call("new_pass", NoFile, None, "ok", <<>>)
    /\ UNCHANGED new_result

\* Two passes over file 1 alone, the second starting from a cache that may
\* have diverged.
NextDiverged ==
    \/ pass = 1 /\ AddNode(F1, "n1")
    \/ pass = 1 /\ AddDisabled(F1, "n1")
    \/ \E id \in SourceIds : pass = 1 /\ AddSource(F1, id)
    \/ \E id \in DocIds : pass = 1 /\ AddDoc(F1, id)
    \/ \E id \in MacroIds : pass = 1 /\ AddMacro(F1, id)
    \/ \E name \in PatchNames : pass = 1 /\ AddPatch(F1, name)
    \/ NewPass
    \/ \E kind \in Kinds \cup {"disabled"} :
          \E id \in NodeIds \cup SourceIds \cup DocIds \cup MacroIds \cup PatchNames :
             LoadDiverged(kind, id)
    \/ SanitizedUpdate(F1)

SpecDiverged == Init /\ [][NextDiverged]_vars

\* The loader offers a file of the cache for reuse once, while the new
\* registry does not track it, and stops at the first exception.
Reusable(source_file) ==
    /\ source_file.search_key \in DOMAIN old_result.files
    /\ source_file.search_key \notin DOMAIN new_result.files
    /\ last.ret \in {"ok", "True"}

\* Two passes: the first builds the cache through the add calls alone, the
\* second only reuses the cached files, in any order.
NextRoundTrip ==
    \/ \E source_file \in CachedFiles : pass = 1 /\ AddNode(source_file, "n1")
    \/ \E source_file \in CachedFiles : pass = 1 /\ AddDisabled(source_file, "n1")
    \/ \E id \in SourceIds : pass = 1 /\ AddSource(F1, id)
    \/ \E id \in DocIds : pass = 1 /\ AddDoc(F1, id)
    \/ \E id \in MacroIds : pass = 1 /\ AddMacro(F1, id)
    \/ \E name \in PatchNames : pass = 1 /\ AddPatch(F1, name)
    \/ NewPass
    \/ \E source_file \in CachedFiles :
          Reusable(source_file) /\ SanitizedUpdate(source_file)

SpecRoundTrip == Init /\ [][NextRoundTrip]_vars

TypeOK == pass \in {1, 2}

----------------------------------------------------------------------------
\* C1: add_node (add_source) raises DuplicateResourceName exactly when the
\* artifact's unique_id is already a key of nodes (sources); otherwise it
\* succeeds and stores the artifact under its id; and no call ever removes
\* or changes an artifact stored in nodes or sources.
C1_Uniqueness ==
    [][ /\ last'.op = "add_node" =>
             IF last'.arg \in DOMAIN Cur.nodes
             THEN last'.ret = "DuplicateResourceName"
             ELSE /\ last'.ret = "ok"
                  /\ last'.arg \in DOMAIN Cur'.nodes
                  /\ Cur'.nodes[last'.arg] = Parsed(last'.arg, last'.source_file)
        /\ last'.op = "add_source" =>
             IF last'.arg \in DOMAIN Cur.sources
             THEN last'.ret = "DuplicateResourceName"
             ELSE /\ last'.ret = "ok"
                  /\ last'.arg \in DOMAIN Cur'.sources
                  /\ Cur'.sources[last'.arg] = Parsed(last'.arg, last'.source_file)
        /\ \A id \in DOMAIN Cur.nodes :
             id \in DOMAIN Cur'.nodes /\ Cur'.nodes[id] = Cur.nodes[id]
        /\ \A id \in DOMAIN Cur.sources :
             id \in DOMAIN Cur'.sources /\ Cur'.sources[id] = Cur.sources[id]
      ]_vars

\* Two nodes with distinct ids are stored and a third add_node, for an id
\* already stored by another file, has raised.
C1_Witness ==
    /\ last.op = "add_node"
    /\ last.ret = "DuplicateResourceName"
    /\ DOMAIN Cur.nodes = {"n1", "n2"}
    /\ Cur.nodes[last.arg].original_file_path # last.source_file.original_file_path

\* The id list an add operation appends to.
KindOf(op) ==
    CASE op = "add_node" -> "nodes"
      [] op = "add_disabled" -> "nodes"
      [] op = "add_source" -> "sources"
      [] op = "add_doc" -> "docs"
      [] op = "add_macro" -> "macros"
      [] op = "add_patch" -> "patches"

AddOps == {"add_node", "add_disabled", "add_source", "add_doc", "add_macro",
           "add_patch"}

\* C4: a successful add call for a file with a search key appends its id
\* (name) to the end of the matching id list of that file's record and
\* leaves the file's other lists and the other records as they were; a call
\* that raises, or a call for a file without key, leaves files unchanged.
\* So each list holds one entry per successful call, in call order.
C4_InsertionOrder ==
    [][ last'.op \in AddOps =>
          LET f == last'.source_file
              key == f.search_key IN
          IF last'.ret = "ok" /\ key # None
          THEN /\ DOMAIN Cur'.files = DOMAIN Cur.files \cup {key}
               /\ \A kind \in Kinds :
                    Ids(Cur', f, kind) =
                      IF kind = KindOf(last'.op)
                      THEN Append(Ids(Cur, f, kind), last'.arg)
                      ELSE Ids(Cur, f, kind)
               /\ \A other \in DOMAIN Cur.files \ {key} :
                    Cur'.files[other] = Cur.files[other]
          ELSE Cur'.files = Cur.files
      ]_vars

\* File 1 got an active node n2 and then a disabled n1: its node list
\* names them in that order.
C4_Witness ==
    /\ last.op = "add_disabled"
    /\ last.ret = "ok"
    /\ last.source_file = F1
    /\ Ids(Cur, F1, "nodes") = <<"n2", "n1">>
    /\ "n2" \in DOMAIN Cur.nodes
    /\ "n1" \notin DOMAIN Cur.nodes

\* C5: has_file returns True exactly when the candidate has a search key,
\* the key is tracked in files and the stored checksum equals the
\* candidate's; has_file changes neither registry.
C5_Staleness ==
    [][ last'.op = "has_file" =>
          LET f == last'.source_file IN
          /\ last'.ret \in {"True", "False"}
          /\ last'.ret = "True" <=>
               \E key \in DOMAIN Cur.files :
                  /\ key = f.search_key
                  /\ Cur.files[key].checksum = f.checksum
          /\ f.search_key = None => last'.ret = "False"
          /\ UNCHANGED <<old_result, new_result>>
      ]_vars

\* has_file answered False for the edited file 1 although its key is
\* tracked, with the checksum of the cached contents.
C5_Witness ==
    /\ last.op = "has_file"
    /\ last.source_file = F1x
    /\ last.ret = "False"
    /\ "k1" \in DOMAIN Cur.files
    /\ Cur.files["k1"].checksum = "h1"
    /\ Cur.files["k1"].nodes # <<>>

\* sub lists exactly the entries of all at the positions in idx, in order.
PicksInOrder(sub, all, idx) ==
    /\ Len(sub) = Cardinality(idx)
    /\ \E g \in [1..Len(sub) -> idx] :
          /\ \A i, j \in 1..Len(sub) : i < j => g[i] < g[j]
          /\ \A i \in 1..Len(sub) : sub[i] = all[g[i]]

\* C9: _get_disabled fails with InternalException exactly when the id is no
\* key of disabled; otherwise it returns, in registration order, exactly the
\* variants under the id whose original_file_path is the given file's.
C9_DisabledRoundTrip ==
    last.op = "_get_disabled" =>
       IF last.arg \notin DOMAIN Cur.disabled
       THEN last.ret = "InternalException"
       ELSE LET all == Cur.disabled[last.arg]
                path == last.source_file.original_file_path IN
            /\ last.ret = "ok"
            /\ PicksInOrder(last.value, all,
                  {i \in 1..Len(all) : all[i].original_file_path = path})

\* n1 was disabled from file 1 and then from file 2; asked for file 2,
\* _get_disabled returned the second variant alone.
C9_Witness ==
    /\ last.op = "_get_disabled"
    /\ last.arg = "n1"
    /\ last.source_file = F2
    /\ "n1" \in DOMAIN Cur.disabled
    /\ Cur.disabled["n1"] = <<Parsed("n1", F1), Parsed("n1", F2)>>
    /\ last.value = <<Parsed("n1", F2)>>

\* The calls that reach get_file for their file: get_file itself and the add
\* operations that did not raise.
ReachesGetFile(call) ==
    call.op = "get_file" \/ (call.op \in AddOps /\ call.ret = "ok")

\* C10: get_file stores and returns the given record when its key is new,
\* returns the stored record and leaves files unchanged when the key is
\* tracked, and returns the given record and leaves files unchanged when
\* the file has no key; it touches nothing but files.  No call removes a
\* key from files or changes the checksum or path registered under it, and
\* a key enters files exactly by a call that reaches get_file for it.
C10_GetFile ==
    [][ /\ last'.op = "get_file" =>
             LET f == last'.source_file
                 key == f.search_key IN
             /\ Cur' = [Cur EXCEPT !.files = Cur'.files]
             /\ IF key = None
                THEN last'.value = <<f>> /\ Cur'.files = Cur.files
                ELSE IF key \in DOMAIN Cur.files
                THEN last'.value = <<Cur.files[key]>> /\ Cur'.files = Cur.files
                ELSE /\ last'.value = <<f>>
                     /\ DOMAIN Cur'.files = DOMAIN Cur.files \cup {key}
                     /\ Cur'.files[key] = f
                     /\ \A k \in DOMAIN Cur.files : Cur'.files[k] = Cur.files[k]
        /\ \A k \in DOMAIN Cur.files :
             /\ k \in DOMAIN Cur'.files
             /\ Cur'.files[k].checksum = Cur.files[k].checksum
             /\ Cur'.files[k].search_key = Cur.files[k].search_key
             /\ Cur'.files[k].original_file_path = Cur.files[k].original_file_path
        /\ \A k \in DOMAIN Cur'.files \ DOMAIN Cur.files :
             ReachesGetFile(last') /\ k = last'.source_file.search_key
        /\ (ReachesGetFile(last') /\ last'.source_file.search_key # None)
             => last'.source_file.search_key \in DOMAIN Cur'.files
      ]_vars

\* get_file for the edited file 1 returned the record registered first,
\* with the cached checksum and the ids appended since.
C10_Witness ==
    /\ last.op = "get_file"
    /\ last.source_file = F1x
    /\ last.value[1].checksum = "h1"
    /\ last.value[1].nodes # <<>>
    /\ Cur.files["k1"] = last.value[1]

\* The mapping of a registry that an id list of a file refers to.
MappingOf(self, kind) ==
    CASE kind = "docs" -> self.docs
      [] kind = "macros" -> self.macros
      [] kind = "sources" -> self.sources
      [] kind = "nodes" -> self.nodes
      [] kind = "patches" -> self.patches

\* The ids in a list.
Range(seq) == {seq[i] : i \in 1..Len(seq)}

\* No id occurs twice in the list.
NoRepeat(seq) == \A i, j \in 1..Len(seq) : seq[i] = seq[j] => i = j

\* C2: when old_result tracks the file with the candidate's checksum
\* (has_file), every id its record lists is a key of the matching mapping of
\* old_result (its nodes are active, each listed once) and new_result holds
\* none of these ids, then sanitized_update returns True and new_result holds
\* under each of these ids the very artifact old_result holds.
C2_ReuseFidelity ==
    [][ LET f == last'.source_file IN
        ( /\ last'.op = "sanitized_update"
          /\ has_file(old_result, f)
          /\ NoRepeat(Ids(old_result, f, "nodes"))
          /\ \A kind \in Kinds : \A id \in Range(Ids(old_result, f, kind)) :
                /\ id \in DOMAIN MappingOf(old_result, kind)
                /\ id \notin DOMAIN MappingOf(new_result, kind) )
        => /\ last'.ret = "True"
           /\ \A kind \in Kinds : \A id \in Range(Ids(old_result, f, kind)) :
                /\ id \in DOMAIN MappingOf(new_result', kind)
                /\ MappingOf(new_result', kind)[id] = MappingOf(old_result, kind)[id]
      ]_vars

\* File 1 was cached with a node, a doc, a macro, a source and a patch and
\* has just been reused: all five are in new_result as they are in
\* old_result.
C2_Witness ==
    /\ last.op = "sanitized_update"
    /\ last.source_file = F1
    /\ last.ret = "True"
    /\ has_file(old_result, F1)
    /\ \A kind \in Kinds : Len(Ids(old_result, F1, kind)) = 1
    /\ "n1" \in DOMAIN old_result.nodes
    /\ \A kind \in Kinds : \A id \in Range(Ids(old_result, F1, kind)) :
          /\ id \in DOMAIN MappingOf(new_result, kind)
          /\ MappingOf(new_result, kind)[id] = MappingOf(old_result, kind)[id]

\* C3 (as claimed): when sanitized_update returns True for a file that
\* new_result did not track, each id list of the file's record in new_result
\* equals the list of its record in old_result.
C3_ReusePreservesOrder ==
    [][ LET f == last'.source_file IN
        ( /\ last'.op = "sanitized_update"
          /\ last'.ret = "True"
          /\ f.search_key \in DOMAIN old_result.files
          /\ f.search_key \notin DOMAIN new_result.files )
        => \A kind \in Kinds :
              Ids(new_result', f, kind) = Ids(old_result, f, kind)
      ]_vars

\* A registry is consistent: every id a tracked file lists is a key of the
\* matching mapping; a node id is a key of nodes or of disabled.
Consistent(self) ==
    \A key \in DOMAIN self.files :
       /\ \A kind \in Kinds \ {"nodes"} :
             Range(self.files[key][kind]) \subseteq DOMAIN MappingOf(self, kind)
       /\ Range(self.files[key].nodes)
             \subseteq (DOMAIN self.nodes \cup DOMAIN self.disabled)

\* C6: every registry built from empty through get_file, the add operations
\* and sanitized_update is consistent.
C6_Consistency == Consistent(old_result) /\ Consistent(new_result)

\* new_result was filled by a fresh parse of file 2 and by reusing file 1,
\* which lists a disabled node and a doc.
C6_Witness ==
    /\ last.op = "sanitized_update"
    /\ last.source_file = F1
    /\ last.ret = "True"
    /\ "k2" \in DOMAIN new_result.files
    /\ new_result.files["k2"].nodes = <<"n1">>
    /\ "k1" \in DOMAIN new_result.files
    /\ new_result.files["k1"].nodes = <<"n1">>
    /\ new_result.files["k1"].docs # <<>>
    /\ "n1" \in DOMAIN new_result.disabled

\* C8 (as claimed): sanitized_update never changes old_result.
C8_OldReadOnly ==
    [][ last'.op = "sanitized_update" => old_result' = old_result ]_vars

\* Some id the old record of file f lists is missing from old_result: a node
\* id from both nodes and disabled, another id from its mapping.
Missing(old, f) ==
    \/ \E kind \in Kinds \ {"nodes"} :
          ~(Range(Ids(old, f, kind)) \subseteq DOMAIN MappingOf(old, kind))
    \/ ~(Range(Ids(old, f, "nodes")) \subseteq (DOMAIN old.nodes \cup DOMAIN old.disabled))

\* C7 (as claimed): when an id of the old file record is missing from
\* old_result, sanitized_update fails with the consistency error.
C7_ConsistencyGuard ==
    [][ (last'.op = "sanitized_update" /\ Missing(old_result, last'.source_file))
          => last'.ret = "CompilationException" ]_vars

\* No source, node or patch the old file record lists can collide: none is
\* in new_result yet and no node id is listed twice.
NoCollision(old, new, f) ==
    /\ \A kind \in {"sources", "nodes", "patches"} :
          Range(Ids(old, f, kind)) \cap DOMAIN MappingOf(new, kind) = {}
    /\ NoRepeat(Ids(old, f, "nodes"))

\* C7 (amended): when an id of the old file record is missing from
\* old_result, sanitized_update does not return: it raises the consistency
\* error, or the duplicate error of an id it processes first; without such
\* a collision it raises the consistency error.
C7_ConsistencyGuardAmended ==
    [][ (last'.op = "sanitized_update" /\ Missing(old_result, last'.source_file))
          => /\ last'.ret \in {"CompilationException", "DuplicateResourceName",
                               "DuplicatePatchName"}
             /\ NoCollision(old_result, new_result, last'.source_file)
                   => last'.ret = "CompilationException"
      ]_vars

\* File 1 lists a node that the cache holds neither in nodes nor in
\* disabled, and its reuse has raised the consistency error after its doc
\* was copied.
C7_Witness ==
    /\ last.op = "sanitized_update"
    /\ last.ret = "CompilationException"
    /\ Ids(old_result, F1, "nodes") = <<"n1">>
    /\ "n1" \notin DOMAIN old_result.nodes \cup DOMAIN old_result.disabled
    /\ Ids(old_result, F1, "docs") # <<>>
    /\ Range(Ids(old_result, F1, "docs")) \subseteq DOMAIN old_result.docs
    /\ DOMAIN new_result.docs # {}

C12_PatchUniqueness ==
    [][ /\ last'.op = "add_patch" =>
             IF last'.arg \in DOMAIN Cur.patches
             THEN last'.ret = "DuplicatePatchName"
             ELSE /\ last'.ret = "ok"
                  /\ last'.arg \in DOMAIN Cur'.patches
                  /\ Cur'.patches[last'.arg] = ParsedPatch(last'.arg, last'.source_file)
                  /\ Ids(Cur', last'.source_file, "patches")
                        = Append(Ids(Cur, last'.source_file, "patches"), last'.arg)
        /\ \A name \in DOMAIN Cur.patches :
              /\ name \in DOMAIN Cur'.patches
              /\ Cur'.patches[name] = Cur.patches[name]
      ]_vars

\* File 2 tried to add the patch that file 1 had stored, and was refused.
C12_Witness ==
    /\ last.op = "add_patch"
    /\ last.source_file = F2
    /\ last.ret = "DuplicatePatchName"
    /\ "t1" \in DOMAIN Cur.patches
    /\ Cur.patches["t1"] = ParsedPatch("t1", F1)
    /\ Ids(Cur, F1, "patches") = <<"t1">>

\* What add_doc / add_macro leaves in mapping `kind`: the artifact of this
\* call under its id, every other entry as it was, and the id at the end of
\* the file's list.
LastWriterWins(kind) ==
    /\ last'.ret = "ok"
    /\ DOMAIN Cur'[kind] = DOMAIN Cur[kind] \cup {last'.arg}
    /\ Cur'[kind][last'.arg] = Parsed(last'.arg, last'.source_file)
    /\ \A id \in DOMAIN Cur[kind] \ {last'.arg} : Cur'[kind][id] = Cur[kind][id]
    /\ Ids(Cur', last'.source_file, kind)
          = Append(Ids(Cur, last'.source_file, kind), last'.arg)

\* C13: add_doc and add_macro never raise; the call's artifact replaces
\* whatever the mapping held under its id, the id is appended to the file's
\* doc / macro list also when it overwrites, and no other call changes docs
\* or macros: each id maps to the artifact of the latest call with that id.
C13_LastWriterWins ==
    [][ /\ IF last'.op = "add_doc" THEN LastWriterWins("docs")
           ELSE Cur'.docs = Cur.docs
        /\ IF last'.op = "add_macro" THEN LastWriterWins("macros")
           ELSE Cur'.macros = Cur.macros
      ]_vars

\* File 2 has overwritten the doc that file 1 stored; both files list it.
C13_Witness ==
    /\ last.op = "add_doc"
    /\ last.source_file = F2
    /\ last.ret = "ok"
    /\ "d1" \in DOMAIN Cur.docs
    /\ Cur.docs["d1"] = Parsed("d1", F2)
    /\ Ids(Cur, F1, "docs") = <<"d1">>
    /\ Ids(Cur, F2, "docs") = <<"d1">>

\* C14: add_disabled never raises; it appends the artifact to the end of the
\* list stored under its id in disabled, or stores a one-element list,
\* leaves every other list of disabled as it was, appends the id to the
\* node list of the file's record and leaves nodes unchanged, also when the
\* id is a key of nodes or was disabled by another file.
C14_DisabledAppends ==
    [][ last'.op = "add_disabled" =>
          LET id == last'.arg
              node == Parsed(id, last'.source_file) IN
          /\ last'.ret = "ok"
          /\ DOMAIN Cur'.disabled = DOMAIN Cur.disabled \cup {id}
          /\ Cur'.disabled[id] = IF id \in DOMAIN Cur.disabled
                                 THEN Append(Cur.disabled[id], node)
                                 ELSE <<node>>
          /\ \A other \in DOMAIN Cur.disabled \ {id} :
                Cur'.disabled[other] = Cur.disabled[other]
          /\ Ids(Cur', last'.source_file, "nodes")
                = Append(Ids(Cur, last'.source_file, "nodes"), id)
          /\ Cur'.nodes = Cur.nodes
      ]_vars

\* File 2 has disabled the id that file 1 had disabled before: its variant
\* is the second of the list.
C14_Witness ==
    /\ last.op = "add_disabled"
    /\ last.source_file = F2
    /\ last.ret = "ok"
    /\ "n1" \in DOMAIN Cur.disabled
    /\ Cur.disabled["n1"] = <<Parsed("n1", F1), Parsed("n1", F2)>>
    /\ Ids(Cur, F2, "nodes") = <<"n1">>

\* The order in which the kinds are to be processed.
KindOrder == <<"docs", "macros", "sources", "nodes", "patches">>

\* The ids the old record of f lists, as (kind, id) pairs: kind after kind
\* in KindOrder, within a kind in list order.
RECURSIVE ItemsFrom(_, _, _)
ItemsFrom(old, f, k) ==
    IF k > Len(KindOrder) THEN <<>>
    ELSE LET ids == Ids(old, f, KindOrder[k]) IN
         [i \in 1..Len(ids) |-> [kind |-> KindOrder[k], id |-> ids[i]]]
            \o ItemsFrom(old, f, k + 1)

\* The outcome of item i taken by itself, given that the items before it
\* went in: "ok", or the error it runs into.  A doc or macro fails only when
\* old lacks it; a source, active node or patch also when new holds the id
\* already or an earlier item of the same kind brought it in; an id that is
\* only disabled never fails.
Outcome(old, new, items, i) ==
    LET kind == items[i].kind
        id == items[i].id
        held == \/ id \in DOMAIN MappingOf(new, kind)
                \/ \E j \in 1..(i - 1) : items[j] = items[i]
        dup == IF kind = "patches" THEN "DuplicatePatchName"
               ELSE "DuplicateResourceName" IN
    IF kind = "nodes" /\ id \notin DOMAIN old.nodes
    THEN IF id \in DOMAIN old.disabled THEN "ok" ELSE "CompilationException"
    ELSE IF id \notin DOMAIN MappingOf(old, kind) THEN "CompilationException"
    ELSE IF kind \in {"docs", "macros"} THEN "ok"
    ELSE IF held THEN dup ELSE "ok"

\* The positions of the items that fail.
Failing(old, new, f) ==
    LET items == ItemsFrom(old, f, 1) IN
    {i \in 1..Len(items) : Outcome(old, new, items, i) # "ok"}

\* The position of kind in KindOrder.
Rank(kind) == CHOOSE k \in 1..Len(KindOrder) : KindOrder[k] = kind

\* C15: sanitized_update of a file that is not remote raises the error of
\* the first failing id, in the order docs, macros, sources, nodes, patches
\* and within a kind in list order, and names that id; it returns True when
\* no id fails; and when it raises, the mappings and id lists of the kinds
\* after the failing one are as they were.
C15_FirstFailure ==
    [][ (last'.op = "sanitized_update" /\ ~last'.source_file.is_remote) =>
          LET f == last'.source_file
              items == ItemsFrom(old_result, f, 1)
              failing == Failing(old_result, new_result, f) IN
          IF failing = {}
          THEN last'.ret = "True" /\ last'.arg = None
          ELSE LET first == CHOOSE i \in failing : \A j \in failing : i <= j IN
               /\ last'.ret = Outcome(old_result, new_result, items, first)
               /\ last'.arg = items[first].id
               /\ \A kind \in Kinds :
                     Rank(kind) > Rank(items[first].kind) =>
                        /\ MappingOf(new_result', kind) = MappingOf(new_result, kind)
                        /\ Ids(new_result', f, kind) = Ids(new_result, f, kind)
      ]_vars

\* Two ids of file 1 fail, a node listed twice and a patch the cache lost,
\* and the error raised is the node's.
C15_Witness ==
    /\ last.op = "sanitized_update"
    /\ last.ret = "DuplicateResourceName"
    /\ last.arg = "n1"
    /\ Ids(old_result, F1, "nodes") = <<"n1", "n1">>
    /\ "n1" \in DOMAIN old_result.nodes
    /\ Ids(old_result, F1, "patches") = <<"t1">>
    /\ "t1" \notin DOMAIN old_result.patches
    /\ "t1" \notin DOMAIN new_result.patches

\* The ids of the items of kind `kind` among the first n items.
RECURSIVE IdsBefore(_, _, _)
IdsBefore(items, n, kind) ==
    IF n = 0 THEN <<>>
    ELSE IdsBefore(items, n - 1, kind)
            \o (IF items[n].kind = kind THEN <<items[n].id>> ELSE <<>>)

\* seq starts with pre.
IsPrefix(pre, seq) ==
    Len(pre) <= Len(seq) /\ \A i \in 1..Len(pre) : seq[i] = pre[i]

\* Item `it` of file f, copied from old, is in the registry `new`: an
\* artifact under its id as old holds it and the id in the file's list; for
\* an id that is only disabled, every variant of the file.
Copied(old, new, f, it) ==
    IF it.kind = "nodes" /\ it.id \notin DOMAIN old.nodes
    THEN \A i \in 1..Len(old.disabled[it.id]) :
            LET node == old.disabled[it.id][i] IN
            node.original_file_path = f.original_file_path =>
               /\ it.id \in DOMAIN new.disabled
               /\ node \in Range(new.disabled[it.id])
               /\ it.id \in Range(Ids(new, f, "nodes"))
    ELSE /\ it.id \in DOMAIN MappingOf(new, it.kind)
         /\ MappingOf(new, it.kind)[it.id] = MappingOf(old, it.kind)[it.id]
         /\ it.id \in Range(Ids(new, f, it.kind))

\* C16: when sanitized_update raises, what it copied before the failing id
\* stays: every earlier item is in new_result, the ids of the earlier items
\* have been appended to the file's lists (the docs, macros, sources and
\* patches lists by exactly those ids), and nothing new_result held before
\* the call is gone.
C16_NoRollback ==
    [][ (last'.op = "sanitized_update" /\ last'.ret \notin {"True", "False"}) =>
          LET f == last'.source_file
              items == ItemsFrom(old_result, f, 1)
              failing == Failing(old_result, new_result, f)
              first == CHOOSE i \in failing : \A j \in failing : i <= j IN
          /\ failing # {}
          /\ \A j \in 1..(first - 1) : Copied(old_result, new_result', f, items[j])
          /\ \A kind \in Kinds \ {"nodes"} :
                Ids(new_result', f, kind)
                   = Ids(new_result, f, kind) \o IdsBefore(items, first - 1, kind)
          /\ IsPrefix(Ids(new_result, f, "nodes"), Ids(new_result', f, "nodes"))
          /\ Len(Ids(new_result', f, "nodes"))
                >= Len(Ids(new_result, f, "nodes"))
                      + Cardinality({j \in 1..(first - 1) :
                                       /\ items[j].kind = "nodes"
                                       /\ items[j].id \in DOMAIN old_result.nodes})
          /\ \A kind \in Kinds \cup {"disabled"} :
                DOMAIN new_result[kind] \subseteq DOMAIN new_result'[kind]
      ]_vars

\* The reuse of file 1 raised on a node the cache lost, and the macro and
\* the source copied before it are in new_result.
C16_Witness ==
    /\ last.op = "sanitized_update"
    /\ last.ret = "CompilationException"
    /\ last.arg = "n1"
    /\ "m1" \in DOMAIN new_result.macros
    /\ "s1" \in DOMAIN new_result.sources
    /\ Ids(new_result, F1, "macros") = <<"m1">>
    /\ Ids(new_result, F1, "sources") = <<"s1">>
    /\ DOMAIN new_result.nodes = {}

\* C17: when add_node, add_source or add_patch raises its duplicate error,
\* the registry is as it was: the mappings, the keys of files and every
\* file record's id lists.
C17_FailedAddUnchanged ==
    [][ ( /\ last'.op \in {"add_node", "add_source", "add_patch"}
          /\ last'.ret # "ok" )
          => /\ Cur' = Cur
             /\ old_result' = old_result
             /\ new_result' = new_result
      ]_vars

\* File 2, which the registry does not track, tried to add the node that
\* file 1 had stored; it was refused and is still not tracked.
C17_Witness ==
    /\ last.op = "add_node"
    /\ last.source_file = F2
    /\ last.ret = "DuplicateResourceName"
    /\ "n1" \in DOMAIN Cur.nodes
    /\ Cur.nodes["n1"] = Parsed("n1", F1)
    /\ "k2" \notin DOMAIN Cur.files
    /\ Ids(Cur, F1, "nodes") = <<"n1">>

\* C18 (as claimed): when the cache was built by add calls alone and its
\* files are reused one after the other into an empty registry, every
\* sanitized_update returns True, and once every file of the cache has been
\* reused new_result equals old_result: mappings, disabled, and file records.
C18_RoundTrip ==
    [][ last'.op = "sanitized_update" =>
          /\ last'.ret = "True"
          /\ DOMAIN new_result'.files = DOMAIN old_result.files
                => new_result' = old_result
      ]_vars

\* C19 (as claimed): when sanitized_update returns True for a file that the
\* cache tracks with the same checksum, new_result tracks the file with that
\* checksum afterwards: has_file is true of it.
C19_ReuseRegisters ==
    [][ ( /\ last'.op = "sanitized_update"
          /\ last'.ret = "True"
          /\ has_file(old_result, last'.source_file) )
          => has_file(new_result', last'.source_file)
      ]_vars

====
